---- MODULE Spec2Model ----
(***************************************************************************)
(* Model of update_bb.py: update_features() replaces one provider's rows   *)
(* in a master feature class by the rows of a new feature class, after     *)
(* optionally copying the provider's current rows to an archive feature    *)
(* class (archive_provider), each tagged with the data round and the Utah  *)
(* speed code (speedcode) of its max advertised download rate.             *)
(*                                                                         *)
(* arcpy is the store collaborator.  Its calls are modelled by what the    *)
(* script uses them for: Exists is membership of the geodatabase, a        *)
(* SearchCursor yields the rows (of the where clause) in store order, the  *)
(* cursor in archive_provider inserts one row per call, the delete cursor  *)
(* removes the rows of the where clause, Append_management copies every    *)
(* row of the input to the end of the target, MakeFeatureLayer registers a *)
(* named layer in the session and fails when the name is taken (comment at *)
(* lines 169-173).  Download rates are integers in thousandths of a Mb/s.  *)
(*                                                                         *)
(* The geodatabase holds the new feature class "new", the two masters      *)
(* "ubb" and "sgid" (the SGID copy starts with the rows of the UBB one,    *)
(* as the module docstring describes their upkeep) and the archive "arch". *)
(* One call of update_features runs as the steps start (checks, provider,  *)
(* validation, layer), archive, delete, append, clean up; an exception     *)
(* ends the call where it is raised.                                       *)
(***************************************************************************)
EXTENDS Integers, Sequences, FiniteSets, TLC

\* ---------------------------------------------------------------- bounds
\* rows a master feature class holds initially (at most)
MaxRows == 2
\* rows the new feature class holds (at most)
MaxNew == 2
\* calls of update_features in one behaviour (at most)
MaxRuns == 2

\* ------------------------------------------------------------ value sets
\* Attribute values of a numeric field: Num(n) is the number n, None the
\* null value a cursor returns as Python None
Num(n) == <<n>>

None == <<>>

\* the projection archive_provider reads from the master feature class
current_data_fields ==
    <<"SHAPE", "UTProvCode", "TransTech", "MAXADDOWN",
      "MAXADUP", "LastEdit", "LastVerified", "Identifier">>

\* the fields archive_provider writes to the archive feature class
archive_fields ==
    <<"SHAPE", "UTProvCode", "TransTech", "MAXADDOWN",
      "MAXADUP", "LastEdit", "LastVerified", "Identifier",
      "DataRound", "MAXADDNTIA">>

Range(s) == {s[i] : i \in 1..Len(s)}

SeqUpTo(S, n) == UNION {[1..k -> S] : k \in 0..n}

\* one feature (row of a master or new feature class)
Feature(prov, down, id) ==
    [SHAPE |-> "poly", UTProvCode |-> prov, TransTech |-> 50,
     MAXADDOWN |-> down, MAXADUP |-> Num(1000), LastEdit |-> "t0",
     LastVerified |-> "t0", Identifier |-> id]

\* rows the master feature classes may hold before the first call; the
\* download rate of the third is null
LiveRows ==
    {Feature("A", Num(200), "{1}"), Feature("A", Num(25000), "{2}"),
     Feature("B", None, "{3}")}

\* rows the (manually created) new feature class may hold
NewRows ==
    {Feature("A", Num(1000000), "{5}"), Feature("B", Num(6000), "{6}")}

\* data_round labels a caller may pass
Rounds == {"R1", "R2"}

\* the name of a feature class that does not exist (a typo)
Typo == "typo"

\* ------------------------------------------------------------- speedcode
\* float(down): a null value cannot be converted (TypeError)
CanFloat(v) == v # None

float(v) == v[1]

\* speedcode with the first comparison strict: .2 itself matches no branch
speedcode_strict(v) ==
    LET d == float(v) IN
    IF d < 200 THEN "1"
    ELSE IF d > 200 /\ d < 768 THEN "2"
    ELSE IF d >= 768 /\ d < 1500 THEN "3"
    ELSE IF d >= 1500 /\ d < 3000 THEN "4"
    ELSE IF d >= 3000 /\ d < 6000 THEN "5"
    ELSE IF d >= 6000 /\ d < 10000 THEN "6"
    ELSE IF d >= 10000 /\ d < 25000 THEN "7"
    ELSE IF d >= 25000 /\ d < 50000 THEN "8"
    ELSE IF d >= 50000 /\ d < 100000 THEN "9"
    ELSE IF d >= 100000 /\ d < 1000000 THEN "10"
    ELSE IF d >= 1000000 THEN "11"
    ELSE "None"

\* The Utah Speed Code of a max advertised download rate (thousandths of a
\* Mb/s: .2 is 200, .768 is 768, 1.5 is 1500, ...)
speedcode(v) ==
    LET d == float(v) IN
    IF d <= 200 THEN "1"
    ELSE IF d > 200 /\ d < 768 THEN "2"
    ELSE IF d >= 768 /\ d < 1500 THEN "3"
    ELSE IF d >= 1500 /\ d < 3000 THEN "4"
    ELSE IF d >= 3000 /\ d < 6000 THEN "5"
    ELSE IF d >= 6000 /\ d < 10000 THEN "6"
    ELSE IF d >= 10000 /\ d < 25000 THEN "7"
    ELSE IF d >= 25000 /\ d < 50000 THEN "8"
    ELSE IF d >= 50000 /\ d < 100000 THEN "9"
    ELSE IF d >= 100000 /\ d < 1000000 THEN "10"
    ELSE IF d >= 1000000 THEN "11"
    ELSE "None"

\* ----------------------------------------------------------------- state
VARIABLES
    gdb,            \* feature class name -> its rows, for those that exist
    layers,         \* names of the feature layers of the arcpy session
    pc,             \* where the current call of update_features stands
    args,           \* the arguments of the current call
    provider,       \* update_features' local: the provider being replaced
    existing_count, \* update_features' local: rows of the 'live' layer
    err,            \* the exception that ended the call ("none": none)
    runs,           \* calls made so far
    gdb0,           \* history: gdb when the current call began
    layers0,        \* history: layers when the current call began
    down,           \* speedcode's argument in the latest call of it alone
    code,           \* speedcode's result in that call ("unset": no call yet)
    prev_down,      \* the argument of the call before
    prev_code,      \* the result of the call before
    last,           \* history: how the call before this one ended
    step,           \* main: the call it is at (0: it has not begun)
    gdbM,           \* history: gdb when main began
    log             \* history: the direct calls of archive_provider

runVars == <<gdb, layers, pc, args, provider, existing_count, err, runs,
             gdb0, layers0>>

speedVars == <<down, code, prev_down, prev_code>>

mainVars == <<step, gdbM>>

vars == <<runVars, speedVars, last, mainVars, log>>

Exists(name) == name \in DOMAIN gdb

\* the argument tuples a caller may pass (archive_fc and data_round default
\* to "NA", which names no feature class)
CallArgs ==
    {[provider_field |-> "UTProvCode", new_data_fc |-> n,
      current_data_fc |-> c, archive_fc |-> x[1], data_round |-> x[2],
      archive |-> x[3]] :
        n \in {"new", Typo}, c \in {"ubb", "sgid", Typo},
        x \in {<<"NA", "NA", FALSE>>}
              \cup {<<af, dr, TRUE>> : af \in {"arch", "NA"}, dr \in Rounds}}

NoArgs ==
    [provider_field |-> "UTProvCode", new_data_fc |-> "new",
     current_data_fc |-> "ubb", archive_fc |-> "NA", data_round |-> "NA",
     archive |-> FALSE]

\* no call before this one, or one that ended before its delete
NoLast == [outcome |-> "none", args |-> NoArgs]

\* rows a cursor with the where clause "<provider_field>" = '<provider>' sees
WhereRows(rows, provider_field, p) ==
    SelectSeq(rows, LAMBDA r : r[provider_field] = p)

\* SearchCursor(fc, fields): the tuple of the fields' values of one row
CursorRow(r, fields) == [i \in 1..Len(fields) |-> r[fields[i]]]

Init ==
    /\ \E u \in SeqUpTo(LiveRows, MaxRows), n \in SeqUpTo(NewRows, MaxNew) :
         gdb = [name \in {"new", "ubb", "sgid", "arch"} |->
                  CASE name = "new" -> n
                    [] name = "arch" -> <<>>
                    [] OTHER -> u]
    /\ layers = {}
    /\ pc = "idle"
    /\ args = NoArgs
    /\ provider = ""
    /\ existing_count = 0
    /\ err = "none"
    /\ runs = 0
    /\ gdb0 = gdb
    /\ layers0 = {}
    /\ down = None
    /\ code = "unset"
    /\ prev_down = None
    /\ prev_code = "unset"
    /\ last = NoLast
    /\ step = 0
    /\ gdbM = gdb
    /\ log = <<>>

\* ------------------------------------------------------ archive_provider
IndexOf(fields, f) == CHOOSE i \in 1..Len(fields) : fields[i] = f

\* transfer_row with the speed code taken from current_row[4] (MAXADUP)
TransferRowWrongField(current_row, data_round) ==
    Append(Append(current_row, data_round), speedcode(current_row[5]))

\* transfer_row: the current row, then data_round, then the speed code of
\* current_row[3] (MAXADDOWN; Python counts from 0)
TransferRow(current_row, data_round) ==
    Append(Append(current_row, data_round), speedcode(current_row[4]))

\* the archive row insertRow writes: the values land in archive_fields' order
ArchiveRow(transfer_row) ==
    [f \in Range(archive_fields) |-> transfer_row[IndexOf(archive_fields, f)]]

\* the loop passing over the rows whose MAXADDOWN cannot be converted
RECURSIVE ArchiveLoopSkipBad(_, _, _)
ArchiveLoopSkipBad(current_rows, archive_rows, data_round) ==
    IF current_rows = <<>> THEN [rows |-> archive_rows, raised |-> FALSE]
    ELSE LET current_row == CursorRow(Head(current_rows), current_data_fields)
         IN  IF ~CanFloat(current_row[4])
             THEN ArchiveLoopSkipBad(Tail(current_rows), archive_rows, data_round)
             ELSE ArchiveLoopSkipBad(Tail(current_rows),
                                     Append(archive_rows,
                                            ArchiveRow(TransferRow(current_row, data_round))),
                                     data_round)

\* The loop of archive_provider over the provider's current rows: each row
\* is inserted as soon as it is built; a row whose MAXADDOWN cannot be
\* converted raises and ends the loop, the rows inserted before it stay.
RECURSIVE ArchiveLoop(_, _, _)
ArchiveLoop(current_rows, archive_rows, data_round) ==
    IF current_rows = <<>> THEN [rows |-> archive_rows, raised |-> FALSE]
    ELSE LET current_row == CursorRow(Head(current_rows), current_data_fields)
         IN  IF ~CanFloat(current_row[4])
             THEN [rows |-> archive_rows, raised |-> TRUE]
             ELSE ArchiveLoop(Tail(current_rows),
                              Append(archive_rows,
                                     ArchiveRow(TransferRow(current_row, data_round))),
                              data_round)

\* archive_provider writing over the archive's rows instead of after them
archive_provider_overwrite(p, provider_field, current_data_fc, archive_fc, data_round) ==
    ArchiveLoop(WhereRows(gdb[current_data_fc], provider_field, p),
                <<>>, data_round)

\* archive_provider leaving out the rows whose Identifier the archive holds
archive_provider_dedup(p, provider_field, current_data_fc, archive_fc, data_round) ==
    ArchiveLoop(SelectSeq(WhereRows(gdb[current_data_fc], provider_field, p),
                          LAMBDA r : \A i \in 1..Len(gdb[archive_fc]) :
                                       gdb[archive_fc][i].Identifier # r.Identifier),
                gdb[archive_fc], data_round)

archive_provider(p, provider_field, current_data_fc, archive_fc, data_round) ==
    ArchiveLoop(WhereRows(gdb[current_data_fc], provider_field, p),
                gdb[archive_fc], data_round)

\* ------------------------------------------------------- update_features
\* the checks without the one of the archive feature class
ExistsCheckNoArchive(a) ==
    IF ~Exists(a.new_data_fc) THEN "NewMissing"
    ELSE IF ~Exists(a.current_data_fc) THEN "LiveMissing"
    ELSE "ok"

\* lines 114-120: the first feature class found missing, or "ok"
ExistsCheck(a) ==
    IF ~Exists(a.new_data_fc) THEN "NewMissing"
    ELSE IF ~Exists(a.current_data_fc) THEN "LiveMissing"
    ELSE IF a.archive /\ ~Exists(a.archive_fc) THEN "ArchiveMissing"
    ELSE "ok"

\* next(name_cursor) with a default provider for an exhausted cursor
NameCursorNextDefault(rows, provider_field) ==
    IF rows = <<>> THEN [stop |-> FALSE, value |-> "A"]
    ELSE [stop |-> FALSE, value |-> rows[1][provider_field]]

\* lines 123-124: next(name_cursor)[0], the first row's provider; an
\* exhausted cursor (no row) raises StopIteration
NameCursorNext(rows, provider_field) ==
    IF rows = <<>> THEN [stop |-> TRUE, value |-> ""]
    ELSE [stop |-> FALSE, value |-> rows[1][provider_field]]

\* lines 128-132: the provider values present in the master feature class
Providers(rows, provider_field) == {r[provider_field] : r \in Range(rows)}

\* the validation accepting every provider
ProviderValidAlways(p, providers) == TRUE

\* lines 134-135: is the new provider among the existing ones?
ProviderValid(p, providers) == p \in providers

\* an exception leaves update_features: nothing is undone, nothing released
Raise(e) ==
    /\ pc' = "failed"
    /\ err' = e

\* the step after the layer, archiving whatever the flag says
AfterLayerAlwaysArchive(a) == "archive"

\* the step after the layer, never archiving
AfterLayerNeverArchive(a) == "delete"

\* line 149: the step after the layer, the archive only if archive is set
AfterLayer(a) == IF a.archive THEN "archive" ELSE "delete"

\* lines 110-147, called with the arguments a: the checks, the provider's
\* name, its validation and the 'live' layer.  A cursor on a feature class
\* that does not exist raises.
Start(a) ==
    /\ args' = a
    /\ runs' = runs + 1
    /\ gdb0' = gdb
    /\ layers0' = layers
    /\ UNCHANGED gdb
    /\ IF ExistsCheck(a) # "ok"
       THEN Raise(ExistsCheck(a)) /\ UNCHANGED <<layers, provider, existing_count>>
       ELSE IF ~Exists(a.new_data_fc) \/ ~Exists(a.current_data_fc)
       THEN Raise("RuntimeError") /\ UNCHANGED <<layers, provider, existing_count>>
       ELSE IF NameCursorNext(gdb[a.new_data_fc], a.provider_field).stop
       THEN Raise("StopIteration") /\ UNCHANGED <<layers, provider, existing_count>>
       ELSE LET p == NameCursorNext(gdb[a.new_data_fc], a.provider_field).value
                live == WhereRows(gdb[a.current_data_fc], a.provider_field, p)
            IN  /\ provider' = p
                /\ IF ~ProviderValid(p, Providers(gdb[a.current_data_fc], a.provider_field))
                   THEN Raise("ValueError") /\ UNCHANGED <<layers, existing_count>>
                   ELSE IF "live" \in layers
                   THEN Raise("LayerExists") /\ UNCHANGED <<layers, existing_count>>
                   ELSE /\ layers' = layers \cup {"live"}
                        /\ existing_count' = Len(live)
                        /\ err' = "none"
                        /\ pc' = AfterLayer(a)

\* a caller calls update_features with some arguments
UpdateFeaturesStart ==
    /\ pc = "idle"
    /\ runs < MaxRuns
    /\ \E a \in CallArgs : Start(a)

\* lines 149-151: archive the provider's current rows
Archive ==
    /\ pc = "archive"
    /\ IF ~Exists(args.archive_fc)
       THEN Raise("RuntimeError") /\ UNCHANGED gdb
       ELSE LET res == archive_provider(provider, args.provider_field,
                                        args.current_data_fc, args.archive_fc,
                                        args.data_round)
            IN  /\ gdb' = [gdb EXCEPT ![args.archive_fc] = res.rows]
                /\ IF res.raised THEN Raise("TypeError")
                   ELSE pc' = "delete" /\ UNCHANGED err
    /\ UNCHANGED <<layers, args, provider, existing_count, runs, gdb0, layers0>>

\* a delete cursor without its where clause: every row goes
DeleteRowsAll(rows, provider_field, p) == <<>>

\* a delete cursor that removes nothing
DeleteRowsNone(rows, provider_field, p) == rows

\* lines 156-159: the rows the delete cursor leaves in the feature class
DeleteRows(rows, provider_field, p) ==
    SelectSeq(rows, LAMBDA r : r[provider_field] # p)

Delete ==
    /\ pc = "delete"
    /\ gdb' = [gdb EXCEPT ![args.current_data_fc] =
                 DeleteRows(@, args.provider_field, provider)]
    /\ pc' = "append"
    /\ UNCHANGED <<layers, args, provider, existing_count, err, runs, gdb0, layers0>>

\* an append that writes the input over the target's rows
AppendRowsOver(target_rows, input_rows) == input_rows

\* line 163: Append_management's result, every row of the input after the
\* target's rows
AppendRows(target_rows, input_rows) == target_rows \o input_rows

\* line 163: the append either copies every new row or fails as a whole (with
\* schema type 'TEST' a schema mismatch is an error), copying nothing
AppendNew ==
    /\ pc = "append"
    /\ \E ok \in BOOLEAN :
         IF ok
         THEN /\ gdb' = [gdb EXCEPT ![args.current_data_fc] =
                           AppendRows(@, gdb[args.new_data_fc])]
              /\ pc' = "cleanup"
              /\ UNCHANGED err
         ELSE Raise("ExecuteError") /\ UNCHANGED gdb
    /\ UNCHANGED <<layers, args, provider, existing_count, runs, gdb0, layers0>>

\* lines 166-175: the explicit clean up.  Deleting the layer either works
\* or fails with error 464 (no schema lock), as the NOTE says.
CleanUp ==
    /\ pc = "cleanup"
    /\ \E ok \in BOOLEAN :
         IF ok
         THEN layers' = layers \ {"live"} /\ pc' = "done" /\ UNCHANGED err
         ELSE Raise("Error464") /\ UNCHANGED layers
    /\ UNCHANGED <<gdb, args, provider, existing_count, runs, gdb0, layers0>>

\* the call is over (it returned, or its exception reached the caller): its
\* locals are gone, the session and its layers live on
Return ==
    /\ pc \in {"done", "failed"}
    /\ pc' = "idle"
    /\ args' = NoArgs
    /\ provider' = ""
    /\ existing_count' = 0
    /\ err' = "none"
    /\ gdb0' = gdb
    /\ layers0' = layers
    /\ last' = IF pc = "done" THEN [outcome |-> "done", args |-> args]
               ELSE IF err = "ExecuteError"
               THEN [outcome |-> "ExecuteError", args |-> args]
               ELSE NoLast
    /\ UNCHANGED <<gdb, layers, runs>>

\* lines 204-205: the script is run again, in a new arcpy session
NewSession ==
    /\ pc = "idle"
    /\ layers # {}
    /\ layers' = {}
    /\ layers0' = {}
    /\ UNCHANGED <<gdb, pc, args, provider, existing_count, err, runs, gdb0>>

Next ==
    \/ UpdateFeaturesStart /\ UNCHANGED <<speedVars, last, mainVars, log>>
    \/ Archive /\ UNCHANGED <<speedVars, last, mainVars, log>>
    \/ Delete /\ UNCHANGED <<speedVars, last, mainVars, log>>
    \/ AppendNew /\ UNCHANGED <<speedVars, last, mainVars, log>>
    \/ CleanUp /\ UNCHANGED <<speedVars, last, mainVars, log>>
    \/ Return /\ UNCHANGED <<speedVars, mainVars, log>>
    \/ NewSession /\ UNCHANGED <<speedVars, last, mainVars, log>>

Spec == Init /\ [][Next]_vars

\* ------------------------------------------------------------------ main
\* The round of updates the module docstring (lines 9-12) and main describe:
\* update_features on the UBB master with archiving, then on the SGID
\* master without.
MainArgs(k, dr) ==
    IF k = 1
    THEN [provider_field |-> "UTProvCode", new_data_fc |-> "new",
          current_data_fc |-> "ubb", archive_fc |-> "arch",
          data_round |-> dr, archive |-> TRUE]
    ELSE [provider_field |-> "UTProvCode", new_data_fc |-> "new",
          current_data_fc |-> "sgid", archive_fc |-> "NA",
          data_round |-> "NA", archive |-> FALSE]

\* main going on to its next call whatever became of the one before
MainContinuesAfterFailure == pc \in {"done", "failed"}

\* main reaches its next statement only when the call before returned: an
\* exception of update_features is not caught and ends the script
MainMayContinue == pc = "done"

MainCallPrimary ==
    /\ step = 0
    /\ pc = "idle"
    /\ \E dr \in Rounds : Start(MainArgs(1, dr))
    /\ step' = 1
    /\ gdbM' = gdb
    /\ UNCHANGED <<speedVars, last, log>>

MainCallSecondary ==
    /\ step = 1
    /\ MainMayContinue
    /\ Start(MainArgs(2, "NA"))
    /\ step' = 2
    /\ UNCHANGED <<gdbM, speedVars, last, log>>

NextMain ==
    \/ MainCallPrimary
    \/ MainCallSecondary
    \/ Archive /\ UNCHANGED <<speedVars, last, mainVars, log>>
    \/ Delete /\ UNCHANGED <<speedVars, last, mainVars, log>>
    \/ AppendNew /\ UNCHANGED <<speedVars, last, mainVars, log>>
    \/ CleanUp /\ UNCHANGED <<speedVars, last, mainVars, log>>

SpecMain == Init /\ [][NextMain]_vars

\* ------------------------------------------ archive_provider on its own
\* the provider codes the feature classes hold
ProviderCodes == {r.UTProvCode : r \in LiveRows \cup NewRows}

\* one direct call archive_provider(p, 'UTProvCode', c, arch, dr); the
\* log keeps its arguments, the archive's length before and after it, and
\* whether it raised
ArchiveProviderCall ==
    /\ Len(log) < MaxRuns
    /\ \E p \in ProviderCodes, c \in {"ubb", "sgid"}, dr \in Rounds :
         LET res == archive_provider(p, "UTProvCode", c, "arch", dr)
         IN  /\ gdb' = [gdb EXCEPT !["arch"] = res.rows]
             /\ log' = Append(log, [provider |-> p, current_data_fc |-> c,
                                    data_round |-> dr,
                                    before |-> Len(gdb["arch"]),
                                    after |-> Len(res.rows),
                                    raised |-> res.raised])
    /\ UNCHANGED <<layers, pc, args, provider, existing_count, err, runs,
                   gdb0, layers0, speedVars, last, mainVars>>

NextArchive == ArchiveProviderCall

SpecArchive == Init /\ [][NextArchive]_vars

\* ------------------------------------------------- speedcode on its own
\* the breakpoints of the speed code table, in thousandths of a Mb/s
Breakpoints ==
    {200, 768, 1500, 3000, 6000, 10000, 25000, 50000, 100000, 1000000}

\* download rates speedcode is called with: 0, every breakpoint, the rates
\* one thousandth below and above it, and a rate far above the last one
SpeedInputs ==
    {0, 5000000} \cup UNION {{b - 1, b, b + 1} : b \in Breakpoints}

InitSpeed ==
    /\ gdb = [name \in {"new", "ubb", "sgid", "arch"} |-> <<>>]
    /\ layers = {}
    /\ pc = "idle"
    /\ args = NoArgs
    /\ provider = ""
    /\ existing_count = 0
    /\ err = "none"
    /\ runs = 0
    /\ gdb0 = gdb
    /\ layers0 = {}
    /\ down = None
    /\ code = "unset"
    /\ prev_down = None
    /\ prev_code = "unset"
    /\ last = NoLast
    /\ step = 0
    /\ gdbM = gdb
    /\ log = <<>>

\* one call speedcode(d)
SpeedcodeCall ==
    /\ \E d \in SpeedInputs :
         /\ down' = Num(d)
         /\ code' = speedcode(Num(d))
    /\ prev_down' = down
    /\ prev_code' = code
    /\ UNCHANGED <<runVars, last, mainVars, log>>

NextSpeed == SpeedcodeCall

SpecSpeed == InitSpeed /\ [][NextSpeed]_vars

\* ================================================================ claims
\* shorthands for the call in progress (or just ended)
InCall == pc # "idle"

Ended == pc \in {"done", "failed"}

NewExists == Exists(args.new_data_fc)

TargetExists == Exists(args.current_data_fc)

ArchiveOk == args.archive => Exists(args.archive_fc)

\* the rows of provider p among rows
RowsOf(rows, p) == SelectSeq(rows, LAMBDA r : r.UTProvCode = p)

ProvidersIn(rows) == {rows[i].UTProvCode : i \in 1..Len(rows)}

\* C1: a call whose new feature class names (in its first row) a provider
\* that the target feature class does not hold fails, and no feature class
\* has changed: target and archive hold the rows they held before the call.
C1_UnknownProviderFailsUnchanged ==
    (/\ InCall
     /\ NewExists
     /\ TargetExists
     /\ gdb0[args.new_data_fc] # <<>>
     /\ gdb0[args.new_data_fc][1].UTProvCode
            \notin ProvidersIn(gdb0[args.current_data_fc]))
    => (pc = "failed" /\ gdb = gdb0)

\* C1's case: validation refused a provider, the target holding other rows
C1_Witness ==
    /\ pc = "failed"
    /\ err = "ValueError"
    /\ gdb0[args.current_data_fc] # <<>>
    /\ provider \notin ProvidersIn(gdb0[args.current_data_fc])
    /\ gdb = gdb0

C3_ArchiveGainsTaggedCopies ==
    (pc = "done" /\ args.archive)
    => LET pre == RowsOf(gdb0[args.current_data_fc], provider)
           a0 == gdb0[args.archive_fc]
           a == gdb[args.archive_fc]
       IN  /\ Len(a) = Len(a0) + Len(pre)
           /\ \A i \in 1..Len(a0) : a[i] = a0[i]
           /\ \A i \in 1..Len(pre) :
                /\ \A j \in 1..Len(current_data_fields) :
                     a[Len(a0) + i][current_data_fields[j]]
                       = pre[i][current_data_fields[j]]
                /\ a[Len(a0) + i].DataRound = args.data_round
                /\ a[Len(a0) + i].MAXADDNTIA = speedcode(pre[i].MAXADDOWN)

\* C3's case: two rows with different speed codes archived after older rows
C3_Witness ==
    /\ pc = "done"
    /\ args.archive
    /\ existing_count = 2
    /\ gdb0[args.archive_fc] # <<>>
    /\ Len(gdb[args.archive_fc]) = Len(gdb0[args.archive_fc]) + 2
    /\ gdb[args.archive_fc][Len(gdb[args.archive_fc])].MAXADDNTIA
         # gdb[args.archive_fc][Len(gdb[args.archive_fc]) - 1].MAXADDNTIA

\* C4: the archive is append-only over every step of every call, failed or
\* not, archiving or not: each row it holds stays, at its place, unchanged.
C4_ArchiveAppendOnly ==
    [][/\ Len(gdb'["arch"]) >= Len(gdb["arch"])
       /\ \A i \in 1..Len(gdb["arch"]) : gdb'["arch"][i] = gdb["arch"][i]]_vars

\* C4's case: a second call has added rows to an archive that held some
C4_Witness ==
    /\ runs = 2
    /\ gdb0["arch"] # <<>>
    /\ Len(gdb["arch"]) > Len(gdb0["arch"])

\* C5: once a call has changed a feature class (an archive insert, a delete
\* or an append), every row of the new feature class carries an identifier
\* generated for it, distinct from the identifiers of the other rows.
C5_NewIdentifiersDistinctBeforeMutation ==
    (InCall /\ gdb # gdb0)
    => \A i, j \in 1..Len(gdb["new"]) :
         i # j => gdb["new"][i].Identifier # gdb["new"][j].Identifier

\* C6 as stated: a call with an empty new feature class (every feature class
\* it names existing, the layer name free) succeeds, the target then holding
\* no row of the provider and no new row.
C6_EmptyNewDatasetAccepted ==
    (/\ Ended
     /\ NewExists /\ TargetExists /\ ArchiveOk
     /\ "live" \notin layers0
     /\ gdb0[args.new_data_fc] = <<>>)
    => pc = "done"

\* C6, amended: a call with an empty new feature class fails (reading the
\* provider from its first row raises StopIteration when all feature
\* classes exist) and no row has been deleted or inserted anywhere.
C6_EmptyNewDatasetFailsUnchanged ==
    (InCall /\ NewExists /\ gdb0[args.new_data_fc] = <<>>)
    => /\ pc = "failed"
       /\ gdb = gdb0
       /\ (TargetExists /\ ArchiveOk) => err = "StopIteration"

\* C6's case: the empty new feature class met a target that holds rows
C6_Witness ==
    /\ pc = "failed"
    /\ err = "StopIteration"
    /\ gdb[args.new_data_fc] = <<>>
    /\ Len(gdb[args.current_data_fc]) = 2

\* C7 as stated: a call on a target with no row of the new feature class's
\* provider (all else in order) succeeds, inserting the new rows.
C7_NewProviderAccepted ==
    (/\ Ended
     /\ NewExists /\ TargetExists /\ ArchiveOk
     /\ "live" \notin layers0
     /\ gdb0[args.new_data_fc] # <<>>
     /\ RowsOf(gdb0[args.current_data_fc],
               gdb0[args.new_data_fc][1].UTProvCode) = <<>>)
    => (pc = "done"
        /\ gdb[args.current_data_fc]
             = gdb0[args.current_data_fc] \o gdb0[args.new_data_fc])

\* C7, amended: a call on a target with no row of the new feature class's
\* provider fails the validation with the ValueError of line 135; the
\* target has lost no row and gained none.
C7_NewProviderRejected ==
    (/\ InCall
     /\ NewExists /\ TargetExists /\ ArchiveOk
     /\ gdb0[args.new_data_fc] # <<>>
     /\ RowsOf(gdb0[args.current_data_fc],
               gdb0[args.new_data_fc][1].UTProvCode) = <<>>)
    => /\ pc = "failed"
       /\ err = "ValueError"
       /\ Len(gdb[args.current_data_fc]) = Len(gdb0[args.current_data_fc])
       /\ gdb[args.current_data_fc] = gdb0[args.current_data_fc]

\* C7's case: two new rows of a provider the (empty) target does not hold
C7_Witness ==
    /\ pc = "failed"
    /\ err = "ValueError"
    /\ Len(gdb[args.new_data_fc]) = 2
    /\ gdb[args.current_data_fc] = <<>>

\* C8: when a call is over, by return or by exception, the layer 'live' it
\* made is gone from the session.
C8_LiveLayerReleasedOnExit ==
    Ended => "live" \notin layers

\* C9: a call naming a feature class that does not exist (the new one, the
\* target, or the archive when archiving) fails with the error of lines
\* 115-120, and nothing has been archived, deleted or inserted.
C9_MissingStoreFailsBeforeMutation ==
    (InCall /\ ~(NewExists /\ TargetExists /\ ArchiveOk))
    => /\ pc = "failed"
       /\ err \in {"NewMissing", "LiveMissing", "ArchiveMissing"}
       /\ gdb = gdb0
       /\ layers = layers0

\* C9's case: only the archive is missing, and the call would otherwise run
C9_Witness ==
    /\ pc = "failed"
    /\ err = "ArchiveMissing"
    /\ args.archive
    /\ gdb[args.new_data_fc] # <<>>
    /\ RowsOf(gdb[args.current_data_fc],
              gdb[args.new_data_fc][1].UTProvCode) # <<>>

\* the codes in rising order
Codes == <<"1", "2", "3", "4", "5", "6", "7", "8", "9", "10", "11">>

\* the place of a code in the table: 1 for rates up to .2, one more above .2,
\* one more from each later breakpoint on
TableRank(d) ==
    1 + (IF d > 200 THEN 1 ELSE 0)
      + Cardinality({b \in Breakpoints \ {200} : d >= b})

\* C10: speedcode returns, for every rate, exactly the code of the
\* breakpoint table, one of "1".."11"; the boundary rates get the codes
\* listed; a rate no lower than another gets a code no lower.
C10_SpeedcodeTable ==
    code # "unset"
    => /\ \E n \in 1..11 : code = Codes[n]
       /\ code = Codes[TableRank(float(down))]
       /\ down = Num(200) => code = "1"
       /\ down = Num(768) => code = "3"
       /\ down = Num(1500) => code = "4"
       /\ down = Num(3000) => code = "5"
       /\ down = Num(6000) => code = "6"
       /\ down = Num(10000) => code = "7"
       /\ down = Num(25000) => code = "8"
       /\ down = Num(50000) => code = "9"
       /\ down = Num(100000) => code = "10"
       /\ down = Num(1000000) => code = "11"
       /\ (prev_code # "unset" /\ float(prev_down) <= float(down))
          => IndexOf(Codes, prev_code) <= IndexOf(Codes, code)

\* C10's case: the boundary .2 classified after a lower rate
C10_Witness ==
    /\ down = Num(200)
    /\ code = "1"
    /\ prev_down = Num(0)
    /\ prev_code = "1"

\* C11: two calls of archive_provider in a row, on the same (unchanged)
\* feature class and provider with different data rounds, neither raising,
\* each append one row per row of the provider: the same number both times,
\* the first batch tagged with the first round, the second with the second,
\* the second batch repeating the rows of the first (nothing is left out).
C11_TwoRoundsTwoBatches ==
    \A i \in 1..(Len(log) - 1) :
      LET b1 == log[i]
          b2 == log[i + 1]
          k == Len(RowsOf(gdb[b1.current_data_fc], b1.provider))
      IN  (/\ b1.provider = b2.provider
           /\ b1.current_data_fc = b2.current_data_fc
           /\ b1.data_round # b2.data_round
           /\ ~b1.raised /\ ~b2.raised)
          => /\ b1.after - b1.before = k
             /\ b2.after - b2.before = k
             /\ b2.before = b1.after
             /\ Len(gdb["arch"]) >= b2.after
             /\ \A n \in 1..k :
                  /\ gdb["arch"][b1.before + n].DataRound = b1.data_round
                  /\ gdb["arch"][b2.before + n].DataRound = b2.data_round
                  /\ gdb["arch"][b1.before + n].Identifier
                       = gdb["arch"][b2.before + n].Identifier

\* C11's case: two rows archived under R1, then the same two under R2
C11_Witness ==
    /\ Len(log) = 2
    /\ log[1].provider = log[2].provider
    /\ log[1].current_data_fc = log[2].current_data_fc
    /\ log[1].data_round = "R1" /\ log[2].data_round = "R2"
    /\ ~log[1].raised /\ ~log[2].raised
    /\ Len(gdb["arch"]) = 4

\* the rows of rows that are not of provider p
RowsNotOf(rows, p) == SelectSeq(rows, LAMBDA r : r.UTProvCode # p)

C13_RetryAfterFailedAppendSucceeds ==
    (/\ Ended
     /\ last.outcome = "ExecuteError"
     /\ args = last.args
     /\ "live" \notin layers0
     /\ err \notin {"ExecuteError", "Error464"})
    => /\ pc = "done"
       /\ RowsOf(gdb[args.current_data_fc], provider)
            = RowsOf(gdb[args.new_data_fc], provider)

C15_State ==
    /\ (pc = "failed" /\ step = 1) => gdb["sgid"] = gdbM["sgid"]
    /\ (pc = "failed" /\ step = 2)
       => /\ RowsOf(gdb["ubb"], provider) = RowsOf(gdb["new"], provider)
          /\ gdb["ubb"] = RowsNotOf(gdbM["ubb"], provider) \o gdb["new"]

C17_BadSpeedFailsBeforeDelete ==
    (/\ InCall
     /\ args.archive
     /\ err \notin {"NewMissing", "LiveMissing", "ArchiveMissing",
                    "StopIteration", "ValueError", "LayerExists"}
     /\ \E i \in 1..Len(gdb0[args.current_data_fc]) :
          /\ gdb0[args.current_data_fc][i].UTProvCode = provider
          /\ gdb0[args.current_data_fc][i].MAXADDOWN = None)
    => /\ pc \in {"archive", "failed"}
       /\ pc = "failed" => err = "TypeError"
       /\ gdb[args.current_data_fc] = gdb0[args.current_data_fc]

\* C17's case: the conversion failed, the provider having two rows
C17_Witness ==
    /\ pc = "failed"
    /\ err = "TypeError"
    /\ existing_count = 2
    /\ gdb[args.current_data_fc] = gdb0[args.current_data_fc]

\* every row of rows is of provider p
OnlyOf(rows, p) == \A i \in 1..Len(rows) : rows[i].UTProvCode = p

====
